---- MODULE Spec2Model ----
(***************************************************************************)
(* The commit-diff reconciliation engine of watchdog-utils:                *)
(* process_update_request and its helpers (services/github_service.rs),    *)
(* the identity layer it drives (services/user_service.rs) and the         *)
(* set-once log target (config.rs).                                        *)
(*                                                                         *)
(* Strings that the code inspects character by character (the checkpoint   *)
(* file, commit ids, refs) are sequences of one-character strings.  An     *)
(* Option<T> is a sequence of length 0 (None) or 1 (Some).                 *)
(***************************************************************************)
EXTENDS Naturals, Sequences, FiniteSets, Bags, TLC

\* ------------------------------------------------------------------ bounds

\* Commits on the tracked branch "build": the head can advance up to here.
MaxCommits == 2
\* Lines of a diff text answered by the compare endpoint.
MaxLines == 3
\* Commits on the tracked branch while two runs overlap.
MaxOverlapCommits == 3

\* ------------------------------------------------------------- input sets

\* Processes invoking process_update_request on the one host.
Procs == {1, 2}
\* File names under names/ and under access/<a>/<b>/.
Hash == {"h1"}
\* Identity strings the host may be configured with.
Hosts == {"aws", "gcp", ""}
\* Groups present in /etc/group on the host.
HostGroups == {"wheel", "aws"}

None == <<>>
Some(x) == <<x>>

\* The tracked branch pointer, as used in ?ref=build.
Build == <<"build">>
Digit == <<"1", "2", "3", "4", "5", "6", "7", "8", "9">>
\* The sha of the i-th commit of the tracked branch.
CommitId(i) == <<"c", Digit[i]>>

VARIABLES
    base_commit_txt,    \* the file base_commit.txt: None (absent) or Some(content)
    LOGGER,             \* per process: the OnceLock, None or Some(target)
    branch,             \* index of the head commit of branch build in the remote store
    hostname,           \* the host identity passed to every run on this host
    pc,                 \* per process: position inside process_update_request
    should_update_all_users,
    last_commit,
    merge_commit,
    latest_commit,
    parts,              \* records of extract_diff_parts not yet iterated
    cloud_providers,    \* update_all_users: providers not yet visited
    projects,           \* update_all_users: projects of the provider not yet visited
    files,              \* update_all_users: files of the project not yet visited
    provider,
    project_name,
    update_all_result,  \* the Result of update_all_users that line 37 discards
    discovered,         \* history: the paths below access/ the listings of the run named
    enumerated_at,      \* history: head of build when the run's first ?ref=build
                        \* request was answered (0: none yet)
    err,                \* the Err process_update_request returned, or None
    requests,           \* per process: requests sent in this run, with their outcome
    calls,              \* per process: bag of identity-management calls of this run
    parsed,             \* history: the records extract_diff_parts returned
    file_at_start,      \* history: base_commit_txt when the run read it
    persisted,          \* history: Some(X) while the last write was a successful save of X
    file_written,       \* history: some write has opened base_commit.txt
    diff_data,          \* the argument of a call of extract_diff_parts on its own
    diff_parts          \* what that call returned: None before it returns

parseVars == <<diff_data, diff_parts>>
globalVars == <<base_commit_txt, LOGGER, branch, hostname, parseVars>>
runVars == <<pc, should_update_all_users, last_commit, merge_commit, latest_commit,
             parts, err, requests, calls>>
resyncVars == <<cloud_providers, projects, files, provider, project_name,
                update_all_result, discovered, enumerated_at>>
histVars == <<parsed, file_at_start, persisted, file_written>>
vars == <<globalVars, runVars, resyncVars, histVars>>

\* ------------------------------------------------------------ pure helpers

WS == {" ", "\n", "\t"}

RECURSIVE TrimStart(_)
TrimStart(s) ==
    IF s # <<>> /\ Head(s) \in WS THEN TrimStart(Tail(s)) ELSE s

RECURSIVE TrimEnd(_)
TrimEnd(s) ==
    IF s # <<>> /\ s[Len(s)] \in WS THEN TrimEnd(SubSeq(s, 1, Len(s) - 1)) ELSE s

\* Mutant: the content is tested as it is read.
TrimNothing(s) == s

\* str::trim
Trim(s) == TrimEnd(TrimStart(s))

RECURSIVE SeqsUpTo(_, _)
SeqsUpTo(S, n) ==
    IF n = 0 THEN {<<>>}
    ELSE LET shorter == SeqsUpTo(S, n - 1)
         IN  shorter \cup {Append(s, x) : s \in shorter, x \in S}

\* Result<T, E>: Ok(v) or Err(e).
Ok(v) == [tag |-> "Ok", val |-> Some(v)]
Err(e) == [tag |-> "Err", val |-> Some(e)]

\* ------------------------------------------------- extract_diff_parts

\* A line of diff text is the sequence of its tokens: the literal
\* "diff --git a" followed by the segments of the path a/<path>, or a single
\* token for any other line (a file-mode marker, an index line, a hunk line).
GitPrefix == "diff --git a"
AccessLine(a, b, h) == <<GitPrefix, "access", a, b, h>>
NamesLine(h) == <<GitPrefix, "names", h>>
NewFileMode == <<"new file mode">>
DeletedFileMode == <<"deleted file mode">>
\* A path that almost matches: access/<a> with nothing below it.
ShortAccessLine(a) == <<GitPrefix, "access", a>>

\* The <a>/<b> of the changed paths access/<a>/<b>/<hash>.
AccessPaths == {<<"aws", "sudo">>, <<"sudo", "aws">>, <<"aws", "aws">>}

DiffLines ==
    {AccessLine(ab[1], ab[2], h) : ab \in AccessPaths, h \in Hash}
        \cup {NamesLine(h) : h \in Hash}
        \cup {NewFileMode, DeletedFileMode, ShortAccessLine("aws")}

\* The diff texts the compare endpoint may answer with.
Diffs == SeqsUpTo(DiffLines, MaxLines)

\* The body of a non-success answer of the compare endpoint (a JSON error).
ErrorBody == << <<"{\"message\":\"Not Found\"}">> >>

\* re_access = diff --git a/(access/([^/]+)/([^/]+)/([\w\d]+))
ReAccessMatches(line) ==
    Len(line) >= 5 /\ line[1] = GitPrefix /\ line[2] = "access"

\* re_names = diff --git a/(names/([\w\d]+))
ReNamesMatches(line) ==
    Len(line) >= 3 /\ line[1] = GitPrefix /\ line[2] = "names"

\* diff_data.contains(marker); diff is the parameter diff_data.
DiffContains(diff, marker) ==
    \E i \in 1..Len(diff) : diff[i] = marker

\* line.contains(full_path): full_path occurs as consecutive tokens of line.
LineContains(line, full_path) ==
    \E i \in 1..Len(line) :
        i + Len(full_path) - 1 <= Len(line)
            /\ SubSeq(line, i, i + Len(full_path) - 1) = full_path

\* Mutant: the deleted-file marker is tested first.
AccessStatusDeletedFirst(diff, line) ==
    IF DiffContains(diff, DeletedFileMode) THEN "deleted"
    ELSE IF DiffContains(diff, NewFileMode) THEN "added"
    ELSE "modified"

AccessStatus(diff, line) ==
    LET full_path == SubSeq(line, 2, 5)
    IN  IF DiffContains(diff, NewFileMode) /\ LineContains(line, full_path)
        THEN "added"
        ELSE IF DiffContains(diff, DeletedFileMode) /\ LineContains(line, full_path)
        THEN "deleted"
        ELSE "modified"

NamesStatus(diff, line) ==
    LET full_path == SubSeq(line, 2, 3)
    IN  IF DiffContains(diff, DeletedFileMode) /\ LineContains(line, full_path)
        THEN "deleteduser"
        ELSE "modifieduser"

\* Mutant: every matching line adds an entry.
EntryPush(map, key, status) == Append(map, <<key, status>>)

\* HashMap::entry(key).or_insert(status); the map is the sequence of its
\* entries <<key, status>>, in the order they were inserted.
EntryOrInsert(map, key, status) ==
    IF \E i \in 1..Len(map) : map[i][1] = key THEN map
    ELSE Append(map, <<key, status>>)

RECURSIVE ScanLines(_, _, _)
ScanLines(diff, i, map) ==
    IF i > Len(diff) THEN map
    ELSE LET line == diff[i]
         IN  IF ReAccessMatches(line)
             THEN ScanLines(diff, i + 1,
                    EntryOrInsert(map, <<line[3], line[4], line[5]>>,
                                  AccessStatus(diff, line)))
             ELSE IF ReNamesMatches(line)
             THEN ScanLines(diff, i + 1,
                    EntryOrInsert(map, <<"", "names", line[3]>>,
                                  NamesStatus(diff, line)))
             ELSE ScanLines(diff, i + 1, map)

\* The Vec of tuples (proj, prov, hash, status) returned, one per entry of the
\* HashMap.  Its order is the map's iteration order, which is unspecified:
\* the callers use Range of it.
ExtractDiffParts(diff) ==
    LET map == ScanLines(diff, 1, <<>>)
    IN  [i \in 1..Len(map) |-> <<map[i][1][1], map[i][1][2], map[i][1][3], map[i][2]>>]

Range(seq) == {seq[i] : i \in 1..Len(seq)}

\* ------------------------------------------------ fetch_and_decode_file

\* base64 text is a sequence of 4-character groups and line breaks; decoded
\* bytes are a sequence of chunks.
B64Groups == {"Ym9i", "/w=="}
B64Table == [g \in B64Groups |-> IF g = "Ym9i" THEN "bob" ELSE "\\xff"]
InvalidUtf8 == "\\xff"

\* The answers of GET <base_url>/names/<hash>?ref=<ref>.
\* Each answer carries what it is (is): the kind of a failed or empty answer,
\* "ok" for well-formed content, "base64" or "utf8" for content that is not.
ContentResponses ==
    {[kind |-> k, content |-> <<>>, is |-> k] :
        k \in {"transport", "failure", "badjson", "nocontent"}}
      \cup {[kind |-> "success", content |-> c, is |-> "ok"] :
              c \in {<<"Ym9i">>, <<"Ym9i", "\n">>}}
      \cup {[kind |-> "success", content |-> <<"@@@@">>, is |-> "base64"],
            [kind |-> "success", content |-> <<"/w==">>, is |-> "utf8"]}

\* base64_content.replace('\n', "")
StripNewlines(s) == SelectSeq(s, LAMBDA c : c # "\n")

\* general_purpose::STANDARD.decode
Base64Decode(clean) ==
    IF \E i \in 1..Len(clean) : clean[i] \notin B64Groups
    THEN Err("base64")
    ELSE Ok([i \in 1..Len(clean) |-> B64Table[clean[i]]])

\* String::from_utf8
FromUtf8(bytes) ==
    IF \E i \in 1..Len(bytes) : bytes[i] = InvalidUtf8
    THEN Err("utf8")
    ELSE Ok(bytes)

\* Mutant: the content is always requested at the branch pointer.
CommitRefBuild(status, base_commit) == Build

\* The ref the content is requested at.
CommitRef(status, base_commit) ==
    IF status = "deleted" \/ status = "deleteduser" THEN base_commit ELSE Build

\* Mutant: every error of the fetch is absorbed as "no content".
FetchAndDecodeFileLenient(resp) ==
    IF resp.is = "ok"
    THEN Ok(Some([i \in 1..Len(StripNewlines(resp.content)) |->
                    B64Table[StripNewlines(resp.content)[i]]]))
    ELSE Ok(None)

\* Mutant: a non-success answer and an answer without content are errors.
FetchAndDecodeFileStrict(resp) ==
    IF resp.is = "ok"
    THEN Ok(Some([i \in 1..Len(StripNewlines(resp.content)) |->
                    B64Table[StripNewlines(resp.content)[i]]]))
    ELSE Err(resp.is)

\* The Result<Option<String>> of fetch_and_decode_file for a given answer.
FetchAndDecodeFile(resp) ==
    IF resp.kind = "transport" THEN Err("transport")
    ELSE IF resp.kind = "failure" THEN Ok(None)
    ELSE IF resp.kind = "badjson" THEN Err("json")
    ELSE IF resp.kind = "nocontent" THEN Ok(None)
    ELSE LET decoded == Base64Decode(StripNewlines(resp.content))
         IN  IF decoded.tag = "Err" THEN decoded
             ELSE LET decoded_str == FromUtf8(decoded.val[1])
                  IN  IF decoded_str.tag = "Err" THEN decoded_str
                      ELSE Ok(Some(decoded_str.val[1]))

\* ------------------------------------------------------ user_service

\* What the host's commands answer during one identity-management call:
\* id says whether the user exists ("exists", "missing") or cannot be run
\* ("io"); fail is the command that exits with a failure when it is run
\* ("none": every command succeeds).
CmdAnswers ==
    {[id |-> "exists", fail |-> f] : f \in {"none", "usermod", "gpasswd", "userdel"}}
        \cup {[id |-> "missing", fail |-> f] : f \in {"none", "useradd"}}
        \cup {[id |-> "io", fail |-> "none"]}

\* The answers when no command is run.
NoCommand == [id |-> "exists", fail |-> "none"]

\* user_exists: Err when id cannot be spawned.
UserExists(cmd) ==
    IF cmd.id = "io" THEN Err("io") ELSE Ok(cmd.id = "exists")

GroupExists(group) == group \in HostGroups

\* create_user: useradd; the result of update_user_bashrc is only logged.
CreateUser(cmd) ==
    IF cmd.fail = "useradd" THEN Err("Failed to create user") ELSE Ok("created")

\* The group usermod is given: sudo falls back to wheel.
GroupToAdd(group) ==
    IF group = "sudo"
    THEN IF GroupExists("sudo") THEN Some("sudo")
         ELSE IF GroupExists("wheel") THEN Some("wheel")
         ELSE None
    ELSE IF GroupExists(group) THEN Some(group)
    ELSE None

AddUserToGroup(user, group, cmd) ==
    LET exists == UserExists(cmd)
    IN  IF exists.tag = "Err" THEN exists
        ELSE IF ~exists.val[1] /\ CreateUser(cmd).tag = "Err" THEN CreateUser(cmd)
        ELSE IF GroupToAdd(group) = None THEN Err("NotFound")
        ELSE IF cmd.fail = "usermod" THEN Err("Failed to add user to group")
        ELSE Ok(<<user, GroupToAdd(group)[1]>>)

RemoveUserFromGroup(user, group, cmd) ==
    IF cmd.fail = "gpasswd" THEN Err("Failed to remove user from group")
    ELSE Ok(<<user, group>>)

DeleteUser(user, cmd) ==
    IF cmd.fail = "userdel" THEN Err("Failed to delete user") ELSE Ok(<<user>>)

\* ------------------------------------------------ remote store answers

\* GET /commits?sha=build&per_page=1: how the call ends, and the page.
RecentOutcomes == {"transport", "badjson", "empty", "ok"}
CommitsPage(out, head) == IF out = "ok" THEN <<[sha |-> CommitId(head)]>> ELSE <<>>

\* commits.first()
First(commits) == IF commits = <<>> THEN None ELSE Some(commits[1])

\* GET /commits/build
LatestOutcomes == {"transport", "failure", "badjson", "nosha", "ok"}

\* GET /compare/<base>...<head>
CompareResponses ==
    {[kind |-> "transport", body |-> <<>>], [kind |-> "failure", body |-> ErrorBody]}
        \cup {[kind |-> "success", body |-> d] : d \in Diffs}

\* The Result<String> of fetch_diff for a given answer.
FetchDiffResult(resp) ==
    IF resp.kind = "transport" THEN Err("transport") ELSE Ok(resp.body)

\* GET <base_url>/access[/<provider>[/<project_name>]]?ref=build.  A
\* directory entry is Some(name), or None when it carries no "name" string.
ProviderListings ==
    {<<>>, <<Some("aws")>>, <<None, Some("sudo")>>, <<Some("aws"), Some("sudo")>>}
ProjectListings == {<<>>, <<Some("aws")>>, <<None, Some("sudo")>>}
FileListings == {<<>>} \cup {<<h>> : h \in Hash}
ListingKinds == {"transport", "failure", "badjson", "success"}

\* The names of the entries that have one, in order.
RECURSIVE NamesOf(_)
NamesOf(entries) ==
    IF entries = <<>> THEN <<>>
    ELSE IF Head(entries) = None THEN NamesOf(Tail(entries))
    ELSE <<Head(entries)[1]>> \o NamesOf(Tail(entries))

\* An entry of the request log: the endpoint, its arguments and how the call
\* ended.  commits, commit: a is the head of build when the call was answered,
\* b the branch asked for.  compare: a...b.  names: a is the record the content
\* is fetched for, b the ref.  access: a is the path below access/, b the ref.
Request(ep, a, b, out) == [ep |-> ep, a |-> a, b |-> b, out |-> out]

\* --------------------------------------------------- base_commit.txt

InitialFiles == {None, Some(<<"\n">>), Some(CommitId(1))}

\* How fs::write ends: "ok"; "create_failed" (the file could not be opened);
\* "interrupted" (opened and truncated, nothing written); "partial" (a proper
\* prefix written).
WriteOutcomes == {"ok", "create_failed", "interrupted", "partial"}

\* Mutant: the commit is appended to what the file holds.
WriteFileAppend(file, contents, outcome) ==
    IF outcome = "ok"
    THEN IF file = None THEN Some(contents) ELSE Some(file[1] \o contents)
    ELSE IF outcome = "create_failed" THEN file
    ELSE IF outcome = "interrupted" THEN Some(<<>>)
    ELSE Some(SubSeq(contents, 1, Len(contents) - 1))

\* Mutant: a file that holds a later commit of the branch is left as it is.
WriteFileIfNewer(file, contents, outcome) ==
    IF file # None
        /\ \E i, j \in 1..Len(Digit) :
                file[1] = CommitId(i) /\ contents = CommitId(j) /\ i > j
    THEN file
    ELSE IF outcome = "ok" THEN Some(contents)
    ELSE IF outcome = "create_failed" THEN file
    ELSE IF outcome = "interrupted" THEN Some(<<>>)
    ELSE Some(SubSeq(contents, 1, Len(contents) - 1))

\* fs::write(path, contents) is File::create (truncate) then write_all.
WriteFile(file, contents, outcome) ==
    IF outcome = "ok" THEN Some(contents)
    ELSE IF outcome = "create_failed" THEN file
    ELSE IF outcome = "interrupted" THEN Some(<<>>)
    ELSE Some(SubSeq(contents, 1, Len(contents) - 1))

\* ------------------------------------------------------------- actions

Set(f, p, v) == [f EXCEPT ![p] = v]

\* The host, the remote store and the processes before any call.
InitRuns ==
    /\ base_commit_txt \in InitialFiles
    /\ LOGGER = [p \in Procs |-> None]
    /\ branch = 1
    /\ hostname \in Hosts
    /\ pc = [p \in Procs |-> "idle"]
    /\ should_update_all_users = [p \in Procs |-> FALSE]
    /\ last_commit = [p \in Procs |-> <<>>]
    /\ merge_commit = [p \in Procs |-> <<>>]
    /\ latest_commit = [p \in Procs |-> <<>>]
    /\ parts = [p \in Procs |-> {}]
    /\ cloud_providers = [p \in Procs |-> <<>>]
    /\ projects = [p \in Procs |-> <<>>]
    /\ files = [p \in Procs |-> <<>>]
    /\ provider = [p \in Procs |-> ""]
    /\ project_name = [p \in Procs |-> ""]
    /\ update_all_result = [p \in Procs |-> None]
    /\ discovered = [p \in Procs |-> {}]
    /\ enumerated_at = [p \in Procs |-> 0]
    /\ err = [p \in Procs |-> None]
    /\ requests = [p \in Procs |-> {}]
    /\ calls = [p \in Procs |-> EmptyBag]
    /\ parsed = [p \in Procs |-> {}]
    /\ file_at_start = [p \in Procs |-> None]
    /\ persisted = None
    /\ file_written = FALSE

Init ==
    /\ InitRuns
    /\ diff_data = <<>>
    /\ diff_parts = None

\* The remote branch build gets a new head commit, up to max commits.
AdvanceBranchTo(max) ==
    /\ branch < max
    /\ branch' = branch + 1
    /\ UNCHANGED <<base_commit_txt, LOGGER, hostname, parseVars,
                   runVars, resyncVars, histVars>>

AdvanceBranch == AdvanceBranchTo(MaxCommits)

\* Mutant: the cell takes a new value every time.
SetLogTargetAgain(cell) == Ok(Some("update"))

\* OnceLock::set: Ok when the cell is empty, Err (then .expect panics) otherwise.
SetLogTarget(cell) == IF cell = None THEN Ok(Some("update")) ELSE Err("log target already set")

\* The locals of a call of process_update_request, and the logs of its run,
\* as they are when the call is entered.
FreshFrame(p) ==
    /\ should_update_all_users' = Set(should_update_all_users, p, FALSE)
    /\ last_commit' = Set(last_commit, p, <<>>)
    /\ merge_commit' = Set(merge_commit, p, <<>>)
    /\ latest_commit' = Set(latest_commit, p, <<>>)
    /\ parts' = Set(parts, p, {})
    /\ cloud_providers' = Set(cloud_providers, p, <<>>)
    /\ projects' = Set(projects, p, <<>>)
    /\ files' = Set(files, p, <<>>)
    /\ provider' = Set(provider, p, "")
    /\ project_name' = Set(project_name, p, "")
    /\ update_all_result' = Set(update_all_result, p, None)
    /\ discovered' = Set(discovered, p, {})
    /\ enumerated_at' = Set(enumerated_at, p, 0)
    /\ err' = Set(err, p, None)
    /\ requests' = Set(requests, p, {})
    /\ calls' = Set(calls, p, EmptyBag)
    /\ file_at_start' = Set(file_at_start, p, None)
    /\ parsed' = Set(parsed, p, {})

\* process_update_request is entered; line 22.  A call made after an earlier
\* call of the same process has returned or panicked finds the log target set.
Call(p) ==
    /\ pc[p] \in {"idle", "done", "failed", "panicked"}
    /\ LET set == SetLogTarget(LOGGER[p])
       IN  IF set.tag = "Ok"
           THEN /\ LOGGER' = Set(LOGGER, p, set.val[1])
                /\ pc' = Set(pc, p, "load")
           ELSE /\ pc' = Set(pc, p, "panicked")
                /\ UNCHANGED LOGGER
    /\ FreshFrame(p)
    /\ UNCHANGED <<base_commit_txt, branch, hostname, parseVars, persisted, file_written>>

\* The process ends and a new one is started: statics and locals are fresh.
Restart(p) ==
    /\ pc[p] \in {"done", "failed", "panicked"}
    /\ LOGGER' = Set(LOGGER, p, None)
    /\ pc' = Set(pc, p, "idle")
    /\ FreshFrame(p)
    /\ UNCHANGED <<base_commit_txt, branch, hostname, parseVars, persisted, file_written>>

\* Lines 25-34: the value of (should_update_all_users, last_commit) for the
\* file as found; read is the Result of fs::read_to_string.
LoadCheckpoint(file, read_ok) ==
    IF file = None THEN Ok(<<TRUE, <<>>>>)
    ELSE IF ~read_ok THEN Err("read")
    ELSE Ok(<<Trim(file[1]) = <<>>, file[1]>>)

\* Lines 25-41/42: the checkpoint is read and the path is chosen.
Load(p) ==
    /\ pc[p] = "load"
    /\ \E read_ok \in BOOLEAN :
        LET loaded == LoadCheckpoint(base_commit_txt, read_ok)
        IN  IF loaded.tag = "Err"
            THEN /\ pc' = Set(pc, p, "failed")
                 /\ err' = Set(err, p, loaded.val)
                 /\ UNCHANGED <<should_update_all_users, last_commit>>
            ELSE /\ should_update_all_users' =
                        Set(should_update_all_users, p, loaded.val[1][1])
                 /\ last_commit' = Set(last_commit, p, loaded.val[1][2])
                 /\ pc' = Set(pc, p, IF loaded.val[1][1] THEN "update_all" ELSE "recent")
                 /\ UNCHANGED err
    /\ file_at_start' = Set(file_at_start, p, base_commit_txt)
    /\ UNCHANGED <<globalVars, merge_commit, latest_commit, parts, requests, calls,
                   resyncVars, parsed, persisted, file_written>>

\* Line 42: fetch_recent_commit resolves the head of build.
FetchRecentCommit(p) ==
    /\ pc[p] = "recent"
    /\ \E out \in RecentOutcomes :
        LET commit == First(CommitsPage(out, branch))
        IN  /\ requests' = Set(requests, p,
                    requests[p] \cup {Request("commits", CommitId(branch), Build, out)})
            /\ IF out \in {"transport", "badjson"} \/ commit = None
               THEN /\ pc' = Set(pc, p, "failed")
                    /\ err' = Set(err, p, Some(out))
                    /\ UNCHANGED merge_commit
               ELSE /\ merge_commit' = Set(merge_commit, p, commit[1].sha)
                    /\ pc' = Set(pc, p, "diff")
                    /\ UNCHANGED err
    /\ UNCHANGED <<globalVars, should_update_all_users, last_commit, latest_commit,
                   parts, calls, resyncVars, histVars>>

\* Lines 43 and 45 for an answer of the compare endpoint: the Result of
\* fetch_diff and, when it is Ok, the tuples of extract_diff_parts(&diff)
\* that the for loop goes through.
DiffOutcome(resp) ==
    LET diff == FetchDiffResult(resp)
    IN  [kind |-> resp.kind,
         tag |-> diff.tag,
         err |-> IF diff.tag = "Err" THEN diff.val ELSE None,
         parts |-> IF diff.tag = "Err" THEN {}
                   ELSE Range(ExtractDiffParts(diff.val[1]))]

\* What lines 43 and 45 can come to, over the answers of the endpoint.
DiffOutcomes == {DiffOutcome(resp) : resp \in CompareResponses}

\* Lines 43-45: fetch_diff over (last_commit, merge_commit), then the diff is
\* parsed at the head of the for loop.
FetchDiff(p) ==
    /\ pc[p] = "diff"
    /\ \E diff \in DiffOutcomes :
        /\ requests' = Set(requests, p,
                requests[p] \cup
                    {Request("compare", last_commit[p], merge_commit[p], diff.kind)})
        /\ IF diff.tag = "Err"
           THEN /\ pc' = Set(pc, p, "failed")
                /\ err' = Set(err, p, diff.err)
                /\ UNCHANGED <<parts, parsed>>
           ELSE /\ parts' = Set(parts, p, diff.parts)
                /\ parsed' = Set(parsed, p, diff.parts)
                /\ pc' = Set(pc, p, IF diff.parts = {} THEN "write" ELSE "loop")
                /\ UNCHANGED err
    /\ UNCHANGED <<globalVars, should_update_all_users, last_commit, merge_commit,
                   latest_commit, calls, resyncVars, file_at_start, persisted,
                   file_written>>

\* Line 45: the tuple of extract_diff_parts as the for loop binds it.
CloudProviderOf(rec) == rec[1]
ProjectOf(rec) == rec[2]
HashOf(rec) == rec[3]
StatusOf(rec) == rec[4]

\* Line 54: the record is for this server.
ThisServer(cloud_provider, host) == cloud_provider = host

\* Lines 58-73: the identity-management call chosen by the status; op is None
\* when the status has no call.
Apply(status, decoded_str, project, cmd) ==
    IF status = "added"
    THEN [op |-> Some("add_user_to_group"),
          res |-> AddUserToGroup(decoded_str, project, cmd)]
    ELSE IF status = "deleted"
    THEN [op |-> Some("remove_user_from_group"),
          res |-> RemoveUserFromGroup(decoded_str, project, cmd)]
    ELSE IF status = "deleteduser"
    THEN [op |-> Some("delete_user"), res |-> DeleteUser(decoded_str, cmd)]
    ELSE [op |-> None, res |-> Ok(<<>>)]

\* An entry of the call log.
CallOf(op, user, group, rec, ok) ==
    [op |-> op, user |-> user, group |-> group, rec |-> rec, ok |-> ok]

\* Mutant: the Err of an identity call is propagated.
PropagateErr(res) == res.tag = "Ok"

\* Lines 60-62, 65-67, 70-72, 282-284: unwrap_or_else logs the Err of an
\* identity call and yields (); the value is whether the run goes on.
UnwrapOrElseLog(res) == TRUE

\* Lines 45-75: one iteration of the for loop over the parsed records.
ProcessRecord(p) ==
    /\ pc[p] = "loop"
    /\ \E rec \in parts[p], resp \in ContentResponses :
       \E cmd \in IF FetchAndDecodeFile(resp).tag = "Ok"
                      /\ FetchAndDecodeFile(resp).val[1] # None
                      /\ ThisServer(CloudProviderOf(rec), hostname)
                   THEN CmdAnswers ELSE {NoCommand} :
        LET fetched == FetchAndDecodeFile(resp)
            rest == parts[p] \ {rec}
            applied == Apply(StatusOf(rec), fetched.val[1][1], ProjectOf(rec), cmd)
            called == fetched.tag = "Ok" /\ fetched.val[1] # None
                        /\ ThisServer(CloudProviderOf(rec), hostname)
                        /\ applied.op # None
        IN  /\ requests' = Set(requests, p,
                    requests[p] \cup
                        {Request("names", rec,
                                 CommitRef(StatusOf(rec), last_commit[p]),
                                 resp.is)})
            /\ calls' = Set(calls, p,
                    IF called
                    THEN calls[p] (+) SetToBag({CallOf(applied.op[1], fetched.val[1][1],
                                                       ProjectOf(rec), rec,
                                                       applied.res.tag = "Ok")})
                    ELSE calls[p])
            /\ IF fetched.tag = "Err" \/ (called /\ ~UnwrapOrElseLog(applied.res))
               THEN /\ pc' = Set(pc, p, "failed")
                    /\ err' = Set(err, p,
                            IF fetched.tag = "Err" THEN fetched.val ELSE Some("identity"))
                    /\ UNCHANGED parts
               ELSE /\ parts' = Set(parts, p, rest)
                    /\ pc' = Set(pc, p, IF rest = {} THEN "write" ELSE "loop")
                    /\ UNCHANGED err
    /\ UNCHANGED <<base_commit_txt, LOGGER, branch, hostname, parseVars,
                   should_update_all_users, last_commit, merge_commit, latest_commit,
                   resyncVars, histVars>>

\* Lines 39 and 77: fs::write("base_commit.txt", commit).
WriteCheckpoint(p) ==
    /\ pc[p] \in {"write", "write_full"}
    /\ \E outcome \in WriteOutcomes :
        LET commit == IF pc[p] = "write" THEN merge_commit[p] ELSE latest_commit[p]
        IN  /\ base_commit_txt' = WriteFile(base_commit_txt, commit, outcome)
            /\ persisted' = IF outcome = "ok" THEN Some(commit)
                            ELSE IF outcome = "create_failed" THEN persisted
                            ELSE None
            /\ file_written' = (file_written \/ outcome # "create_failed")
            /\ IF outcome = "ok"
               THEN /\ pc' = Set(pc, p, "done")
                    /\ UNCHANGED err
               ELSE /\ pc' = Set(pc, p, "failed")
                    /\ err' = Set(err, p, Some("write"))
    /\ UNCHANGED <<LOGGER, branch, hostname, parseVars,
                   should_update_all_users, last_commit, merge_commit, latest_commit,
                   parts, requests, calls, resyncVars, parsed, file_at_start>>

\* ------------------------------------------------------ update_all_users

\* update_all_users returns r; line 37 binds it to _ and goes on to line 38.
Returned(p, r) ==
    /\ update_all_result' = Set(update_all_result, p, Some(r))
    /\ pc' = Set(pc, p, "latest")

\* A request with ?ref=build is answered from the head of build at that moment.
AnsweredAtHead(p) ==
    enumerated_at' = Set(enumerated_at, p,
                         IF enumerated_at[p] = 0 THEN branch ELSE enumerated_at[p])

\* Mutant: the loops end with the projects of the provider at hand.
LoopsDoneEarly(cp, pr, fl) == pr = <<>> /\ fl = <<>>

\* The loops of lines 241-296 have nothing left to visit.
LoopsDone(cp, pr, fl) == cp = <<>> /\ pr = <<>> /\ fl = <<>>

\* After an item: back into the loops, or Ok(()) at line 298.
Continue(p, cp, pr, fl) ==
    IF LoopsDone(cp, pr, fl)
    THEN Returned(p, "Ok")
    ELSE /\ pc' = Set(pc, p, "update_all_loop")
         /\ UNCHANGED update_all_result

\* Lines 222-239: the providers are listed.
ListProviders(p) ==
    /\ pc[p] = "update_all"
    /\ \E kind \in ListingKinds, entries \in ProviderListings :
        /\ requests' = Set(requests, p,
                requests[p] \cup {Request("access", <<>>, Build, kind)})
        /\ IF kind # "success"
           THEN /\ Returned(p, "Err")
                /\ UNCHANGED <<cloud_providers, discovered>>
           ELSE /\ cloud_providers' = Set(cloud_providers, p, NamesOf(entries))
                /\ discovered' = Set(discovered, p,
                        {<<NamesOf(entries)[i]>> : i \in 1..Len(NamesOf(entries))})
                /\ Continue(p, NamesOf(entries), <<>>, <<>>)
    /\ AnsweredAtHead(p)
    /\ UNCHANGED <<globalVars, should_update_all_users, last_commit, merge_commit,
                   latest_commit, parts, err, calls, projects, files, provider,
                   project_name, histVars>>

\* Lines 241-252: the next provider is taken and its projects are listed.
ListProjects(p) ==
    /\ pc[p] = "update_all_loop"
    /\ files[p] = <<>> /\ projects[p] = <<>> /\ cloud_providers[p] # <<>>
    /\ \E kind \in ListingKinds, entries \in ProjectListings :
        LET next == Head(cloud_providers[p])
            rest == Tail(cloud_providers[p])
        IN  /\ provider' = Set(provider, p, next)
            /\ cloud_providers' = Set(cloud_providers, p, rest)
            /\ requests' = Set(requests, p,
                    requests[p] \cup {Request("access", <<next>>, Build, kind)})
            /\ IF kind # "success"
               THEN /\ Returned(p, "Err")
                    /\ UNCHANGED <<projects, discovered>>
               ELSE /\ projects' = Set(projects, p, entries)
                    /\ discovered' = Set(discovered, p,
                            discovered[p] \cup
                                {<<next, NamesOf(entries)[i]>> :
                                    i \in 1..Len(NamesOf(entries))})
                    /\ Continue(p, rest, entries, <<>>)
    /\ AnsweredAtHead(p)
    /\ UNCHANGED <<globalVars, should_update_all_users, last_commit, merge_commit,
                   latest_commit, parts, err, calls, files, project_name, histVars>>

\* Lines 254-272 and 287-293: the next project is taken and its files are listed.
ListFiles(p) ==
    /\ pc[p] = "update_all_loop"
    /\ files[p] = <<>> /\ projects[p] # <<>>
    /\ \E kind \in ListingKinds, listing \in FileListings :
        LET project == Head(projects[p])
            rest == Tail(projects[p])
        IN  /\ projects' = Set(projects, p, rest)
            /\ IF project = None
               THEN /\ Continue(p, cloud_providers[p], rest, <<>>)
                    /\ UNCHANGED <<project_name, requests, files, discovered,
                                   enumerated_at>>
               ELSE /\ project_name' = Set(project_name, p, project[1])
                    /\ AnsweredAtHead(p)
                    /\ requests' = Set(requests, p,
                            requests[p] \cup
                                {Request("access", <<provider[p], project[1]>>, Build, kind)})
                    /\ IF kind \in {"transport", "badjson"}
                       THEN /\ Returned(p, "Err")
                            /\ UNCHANGED <<files, discovered>>
                       ELSE IF kind = "failure"
                       THEN /\ Continue(p, cloud_providers[p], rest, <<>>)
                            /\ UNCHANGED <<files, discovered>>
                       ELSE /\ files' = Set(files, p, listing)
                            /\ discovered' = Set(discovered, p,
                                    discovered[p] \cup
                                        {<<provider[p], project[1], listing[i]>> :
                                            i \in 1..Len(listing)})
                            /\ Continue(p, cloud_providers[p], rest, listing)
    /\ UNCHANGED <<globalVars, should_update_all_users, last_commit, merge_commit,
                   latest_commit, parts, err, calls, cloud_providers, provider,
                   histVars>>

\* Lines 272-286: the next file's content is fetched as "added" and the user
\* is added to the group named after the project.
AddListedFile(p) ==
    /\ pc[p] = "update_all_loop"
    /\ files[p] # <<>>
    /\ \E resp \in ContentResponses :
       \E cmd \in IF FetchAndDecodeFile(resp).tag = "Ok"
                      /\ FetchAndDecodeFile(resp).val[1] # None
                   THEN CmdAnswers ELSE {NoCommand} :
        LET hash == Head(files[p])
            rest == Tail(files[p])
            fetched == FetchAndDecodeFile(resp)
            rec == <<provider[p], project_name[p], hash, "added">>
            added == AddUserToGroup(fetched.val[1][1], project_name[p], cmd)
            called == fetched.tag = "Ok" /\ fetched.val[1] # None
        IN  /\ requests' = Set(requests, p,
                    requests[p] \cup
                        {Request("names", rec, CommitRef("added", <<>>),
                                 resp.is)})
            /\ calls' = Set(calls, p,
                    IF called
                    THEN calls[p] (+) SetToBag({CallOf("add_user_to_group",
                                                       fetched.val[1][1], project_name[p],
                                                       rec, added.tag = "Ok")})
                    ELSE calls[p])
            /\ IF fetched.tag = "Err" \/ (called /\ ~UnwrapOrElseLog(added))
               THEN /\ Returned(p, "Err")
                    /\ UNCHANGED files
               ELSE /\ files' = Set(files, p, rest)
                    /\ Continue(p, cloud_providers[p], projects[p], rest)
    /\ AnsweredAtHead(p)
    /\ UNCHANGED <<base_commit_txt, LOGGER, branch, hostname, parseVars,
                   should_update_all_users, last_commit, merge_commit, latest_commit,
                   parts, err, cloud_providers, projects, provider, project_name,
                   discovered, histVars>>

\* Line 38: fetch_latest_commit resolves the head of build.
FetchLatestCommit(p) ==
    /\ pc[p] = "latest"
    /\ \E out \in LatestOutcomes :
        /\ requests' = Set(requests, p,
                requests[p] \cup {Request("commit", CommitId(branch), Build, out)})
        /\ IF out = "ok"
           THEN /\ latest_commit' = Set(latest_commit, p, CommitId(branch))
                /\ pc' = Set(pc, p, "write_full")
                /\ UNCHANGED err
           ELSE /\ pc' = Set(pc, p, "failed")
                /\ err' = Set(err, p, Some(out))
                /\ UNCHANGED latest_commit
    /\ UNCHANGED <<globalVars, should_update_all_users, last_commit, merge_commit,
                   parts, calls, resyncVars, histVars>>

\* ------------------------------------------------------- specifications

Step(p) ==
    \/ Call(p)
    \/ Restart(p)
    \/ Load(p)
    \/ ListProviders(p)
    \/ ListProjects(p)
    \/ ListFiles(p)
    \/ AddListedFile(p)
    \/ FetchLatestCommit(p)
    \/ FetchRecentCommit(p)
    \/ FetchDiff(p)
    \/ ProcessRecord(p)
    \/ WriteCheckpoint(p)

\* Runs one at a time: one process after another, each started after the
\* one before it has ended.
Next == Step(1) \/ AdvanceBranch

Spec == Init /\ [][Next]_vars

\* Two processes on the one host, their runs interleaved step by step.  The
\* host holds c1 in base_commit.txt; the remote store, the file system and
\* the host's commands answer without a fault; the diff of a commit range
\* is empty when the range is, and otherwise names at most the one grant
\* access/aws/aws/h1, added.
InitOverlap ==
    /\ Init
    /\ hostname = "aws"
    /\ base_commit_txt = Some(CommitId(1))

OneGrantNoFault ==
    \A p \in Procs :
        /\ pc[p] # "failed"
        /\ \A r \in requests[p] : r.out \in {"ok", "success"}
        /\ \A c \in BagToSet(calls[p]) : c.ok
        /\ parsed[p] \subseteq {<<"aws", "aws", "h1", "added">>}
        /\ \A r \in requests[p] :
                (r.ep = "compare" /\ r.a = r.b) => parsed[p] = {}

StepOverlap(p) ==
    \/ Call(p) /\ OneGrantNoFault'
    \/ Restart(p) /\ OneGrantNoFault'
    \/ Load(p) /\ OneGrantNoFault'
    \/ FetchRecentCommit(p) /\ OneGrantNoFault'
    \/ FetchDiff(p) /\ OneGrantNoFault'
    \/ ProcessRecord(p) /\ OneGrantNoFault'
    \/ WriteCheckpoint(p) /\ OneGrantNoFault'

AdvanceOverlap == AdvanceBranchTo(MaxOverlapCommits)

NextOverlap == (\E p \in Procs : StepOverlap(p)) \/ AdvanceOverlap

SpecOverlap == InitOverlap /\ [][NextOverlap]_vars

\* extract_diff_parts on its own: called once on any diff text.
InitParse ==
    /\ InitRuns
    /\ diff_data \in Diffs
    /\ diff_parts = None

ExtractParts ==
    /\ diff_parts = None
    /\ diff_parts' = Some(ExtractDiffParts(diff_data))
    /\ UNCHANGED <<base_commit_txt, LOGGER, branch, hostname, diff_data,
                   runVars, resyncVars, histVars>>

NextParse == ExtractParts

SpecParse == InitParse /\ [][NextParse]_vars

\* --------------------------------------------------------- properties

\* The run of p read the checkpoint and took the incremental path.
IncrementalRun(p) ==
    /\ ~should_update_all_users[p]
    /\ pc[p] \in {"recent", "diff", "loop", "write", "done", "failed"}
    /\ err[p] # Some("read")

\* The run of p read the checkpoint and took the full-resync path.
FullResyncRun(p) == should_update_all_users[p]

\* A string of whitespace only.
Blank(str) == \A i \in 1..Len(str) : str[i] \in WS

\* Requests of the run of p to endpoint ep.
Sent(p, ep) == {r \in requests[p] : r.ep = ep}

\* Resolving the head, fetching the diff or fetching and decoding a record's
\* content met a transport or decoding error during the run of p.
FetchFault(p) ==
    \/ \E r \in Sent(p, "commits") : r.out \in {"transport", "badjson", "empty"}
    \/ \E r \in Sent(p, "compare") : r.out = "transport"
    \/ \E r \in Sent(p, "names") : r.out \in {"transport", "badjson", "base64", "utf8"}

\* C1: an incremental run that meets a transport or decoding error while
\* resolving the head, fetching the diff or fetching a record's content has
\* returned an error, and base_commit.txt holds what it held when the run
\* read it.
C1_FetchErrorKeepsCheckpoint ==
    \A p \in Procs :
        (IncrementalRun(p) /\ FetchFault(p)) =>
            /\ pc[p] = "failed"
            /\ err[p] # None
            /\ base_commit_txt = file_at_start[p]

\* C1 witness: an incremental run was aborted by undecodable content of its
\* second record, after the first was applied.
C1_Witness ==
    \E p \in Procs :
        /\ IncrementalRun(p)
        /\ pc[p] = "failed"
        /\ \E r \in Sent(p, "names") : r.out = "base64"
        /\ calls[p] # EmptyBag
        /\ base_commit_txt = Some(CommitId(1))

\* C2 (as specified): in a full-resync run in which a listing call or a content
\* fetch of update_all_users failed, the run does not end in success with the
\* checkpoint written.
C2_ResyncFailureWritesNothing ==
    \A p \in Procs :
        (FullResyncRun(p) /\ update_all_result[p] = Some("Err")) =>
            ~(pc[p] = "done" /\ base_commit_txt = Some(latest_commit[p]))

\* C3 (as specified): an incremental run whose compare request was answered
\* with a non-success response does not go on and end with the checkpoint
\* advanced to the head.
C3_CompareFailureAborts ==
    \A p \in Procs :
        (IncrementalRun(p) /\ \E r \in Sent(p, "compare") : r.out = "failure") =>
            ~(pc[p] = "done" /\ base_commit_txt = Some(merge_commit[p]))

\* C4: a run that found base_commit.txt absent or blank takes the full-resync
\* path and sends no compare request; a run that found a non-blank content
\* takes the incremental path and sends no listing request.
C4_PathSelection ==
    \A p \in Procs :
        (pc[p] \notin {"idle", "load", "panicked"}) =>
            IF file_at_start[p] = None \/ Blank(file_at_start[p][1])
            THEN /\ err[p] # Some("read") => should_update_all_users[p]
                 /\ pc[p] \notin {"recent", "diff", "loop", "write"}
                 /\ Sent(p, "compare") = {} /\ Sent(p, "commits") = {}
            ELSE /\ ~should_update_all_users[p]
                 /\ pc[p] \notin {"update_all", "update_all_loop", "latest", "write_full"}
                 /\ Sent(p, "access") = {} /\ Sent(p, "commit") = {}

\* C4 witness: a run that found a file holding only a line break has listed
\* the providers.
C4_Witness ==
    \E p \in Procs :
        /\ file_at_start[p] = Some(<<"\n">>)
        /\ Sent(p, "access") # {}

\* An identity-management call of the run of p ended in an error.
IdentityFailed(p) == \E c \in BagToSet(calls[p]) : ~c.ok

\* C5: in an incremental run, after a failed identity-management call the run
\* is aborted by nothing but a fetch or write error; once the loop is over
\* every parsed record has had its content requested; a finished run has set
\* the checkpoint to the head it resolved; and no record has two calls.
C5_IdentityFailureDoesNotAbort ==
    \A p \in Procs :
        (IncrementalRun(p) /\ IdentityFailed(p)) =>
            /\ pc[p] = "failed" => (FetchFault(p) \/ err[p] = Some("write"))
            /\ pc[p] \in {"write", "done"} =>
                    \A rec \in parsed[p] : \E r \in Sent(p, "names") : r.a = rec
            /\ pc[p] = "done" =>
                    /\ base_commit_txt = Some(merge_commit[p])
                    /\ \E r \in Sent(p, "commits") : r.out = "ok" /\ r.a = merge_commit[p]
            /\ \A c \in BagToSet(calls[p]) :
                    /\ CopiesIn(c, calls[p]) = 1
                    /\ \A d \in BagToSet(calls[p]) : d.rec = c.rec => d = c

\* C5 witness: a finished incremental run made two calls, one of which failed.
C5_Witness ==
    \E p \in Procs :
        /\ IncrementalRun(p)
        /\ pc[p] = "done"
        /\ IdentityFailed(p)
        /\ \E c \in BagToSet(calls[p]) : c.ok
        /\ base_commit_txt = Some(CommitId(2))

\* A record of an access path, by its status.
AccessRecord(rec) == rec[4] \in {"added", "deleted", "modified"}

\* The calls of the run of p made for record rec with operation op, counted
\* with their multiplicity.
CallCount(p, rec, op) ==
    LET cs == {c \in BagToSet(calls[p]) : c.rec = rec /\ c.op = op}
    IN  IF cs = {} THEN 0
        ELSE IF Cardinality(cs) = 1 THEN CopiesIn(CHOOSE c \in cs : TRUE, calls[p])
        ELSE 2

\* The content of record rec was requested and resolved in the run of p.
Resolved(p, rec) == \E r \in Sent(p, "names") : r.a = rec /\ r.out = "ok"

\* C6 (as specified): in an incremental run every identity-management call
\* for a record of access/<project>/<provider>/<hash> is made for a record
\* whose second segment is the host identity, with the first segment as the
\* group.  (A record is <<first segment, second segment, hash, status>>.)
C6_FilterOnSecondSegment ==
    \A p \in Procs :
        IncrementalRun(p) =>
            \A c \in BagToSet(calls[p]) :
                AccessRecord(c.rec) => (c.rec[2] = hostname /\ c.group = c.rec[1])

\* C7 (as specified): on a host with a non-empty identity, a finished
\* incremental run whose diff held a deleted names/<hash> path, with the
\* content resolved at the base commit, made exactly one delete-user call for
\* it.
C7_UserDeletionApplied ==
    \A p \in Procs :
        (IncrementalRun(p) /\ pc[p] = "done" /\ hostname # "") =>
            \A rec \in parsed[p] :
                (rec[4] = "deleteduser"
                    /\ \E r \in Sent(p, "names") :
                            r.a = rec /\ r.out = "ok" /\ r.b = last_commit[p])
                    => CallCount(p, rec, "delete_user") = 1

\* C8 (as specified): once the loop of an incremental run is over, every access
\* record whose provider (second segment) is the host identity and whose
\* content resolved has exactly one call, add-to-group if it is added and
\* remove-from-group if it is deleted; a modified record has none; and no
\* record has more than one call.
C8_RoutingByKind ==
    \A p \in Procs :
        (IncrementalRun(p) /\ pc[p] \in {"write", "done"}) =>
            \A rec \in {r \in parsed[p] : AccessRecord(r)} :
                LET adds == CallCount(p, rec, "add_user_to_group")
                    removes == CallCount(p, rec, "remove_user_from_group")
                    deletes == CallCount(p, rec, "delete_user")
                    addressed == rec[2] = hostname /\ Resolved(p, rec)
                IN  /\ adds + removes + deletes <= 1
                    /\ (addressed /\ rec[4] = "added") => adds = 1
                    /\ (addressed /\ rec[4] = "deleted") => removes = 1
                    /\ rec[4] = "modified" => adds + removes + deletes = 0

\* C9 (as specified): after a failed write of the new checkpoint by a run that
\* had loaded a commit id, base_commit.txt holds what it held before the
\* write, which is what the run had read.
C9_SaveIsAtomic ==
    \A p \in Procs :
        (IncrementalRun(p) /\ err[p] = Some("write")) =>
            base_commit_txt = file_at_start[p]

\* The run of p is between reading the checkpoint and ending.
Running(p) ==
    pc[p] \in {"update_all", "update_all_loop", "latest", "write_full",
               "recent", "diff", "loop", "write"}

\* C10: while the last write of base_commit.txt is a successful save of X, a
\* run that has read the checkpoint holds exactly X as last_commit, is on the
\* incremental path, and every compare request it sends is X...head, where
\* head is what its commits request found as the head of build; and a run
\* that found a store never written has loaded no commit.
C10_CheckpointRoundTrip ==
    \A p \in Procs :
        Running(p) =>
            /\ persisted # None =>
                    /\ last_commit[p] = persisted[1]
                    /\ ~should_update_all_users[p]
                    /\ \A r \in Sent(p, "compare") :
                            /\ r.a = persisted[1]
                            /\ \E c \in Sent(p, "commits") : c.out = "ok" /\ c.a = r.b
            /\ (~file_written /\ base_commit_txt = None) =>
                    /\ should_update_all_users[p]
                    /\ last_commit[p] = <<>>

\* C10 witness: a run requests the diff c1...c2 after a run that saved c1.
C10_Witness ==
    \E p \in Procs :
        /\ Running(p)
        /\ persisted = Some(CommitId(1))
        /\ \E r \in Sent(p, "compare") : r.a = CommitId(1) /\ r.b = CommitId(2)

\* C11: in a run that found no base_commit.txt and whose update_all_users
\* returned Ok, the providers were listed; the projects of every provider
\* named were listed and nothing else; the files of every project named were
\* listed; the content of every file named was requested at build; every
\* file whose content resolved has exactly one call, add_user_to_group with
\* the project as the group, and no other call was made; and the run, once
\* finished, has written the head that fetch_latest_commit resolved.
C11_FullResync ==
    \A p \in Procs :
        (FullResyncRun(p) /\ file_at_start[p] = None
            /\ update_all_result[p] = Some("Ok")) =>
            /\ \E r \in Sent(p, "access") : r.a = <<>> /\ r.out = "success"
            /\ \A d \in discovered[p] :
                    IF Len(d) < 3
                    THEN \E r \in Sent(p, "access") : r.a = d /\ r.b = Build
                    ELSE \E r \in Sent(p, "names") :
                            r.a = <<d[1], d[2], d[3], "added">> /\ r.b = Build
            /\ \A r \in Sent(p, "access") : r.a # <<>> => r.a \in discovered[p]
            /\ \A r \in Sent(p, "names") :
                    /\ <<r.a[1], r.a[2], r.a[3]>> \in discovered[p]
                    /\ CallCount(p, r.a, "add_user_to_group")
                            = (IF r.out = "ok" THEN 1 ELSE 0)
            /\ \A c \in BagToSet(calls[p]) :
                    /\ c.op = "add_user_to_group"
                    /\ c.group = c.rec[2]
                    /\ Resolved(p, c.rec)
            /\ pc[p] \in {"latest", "write_full", "done", "failed"}
            /\ pc[p] = "done" =>
                    /\ base_commit_txt = Some(latest_commit[p])
                    /\ \E r \in Sent(p, "commit") :
                            r.out = "ok" /\ r.a = latest_commit[p]

\* C11 witness: a run that found no file has listed two providers and a
\* project with a file, made the call for it and written the head c2.
C11_Witness ==
    \E p \in Procs :
        /\ file_at_start[p] = None
        /\ update_all_result[p] = Some("Ok")
        /\ pc[p] = "done"
        /\ {<<"aws">>, <<"sudo">>} \subseteq discovered[p]
        /\ \E d \in discovered[p] : Len(d) = 3
        /\ calls[p] # EmptyBag
        /\ base_commit_txt = Some(CommitId(2))

\* The key extract_diff_parts files a line under; <<>> for a line that
\* matches neither pattern.
KeyOfLine(line) ==
    IF ReAccessMatches(line) THEN <<line[3], line[4], line[5]>>
    ELSE IF ReNamesMatches(line) THEN <<"", "names", line[3]>>
    ELSE <<>>

\* The lines of diff that are filed under key.
LinesOf(diff, key) == {i \in 1..Len(diff) : KeyOfLine(diff[i]) = key}

\* C12: in what extract_diff_parts returns for a diff text, no two tuples
\* have the same (first, second, hash) key, and the status of each tuple is
\* the one computed for the first line of the text filed under its key.
C12_Deduplication ==
    diff_parts # None =>
        LET out == diff_parts[1]
        IN  /\ \A i, j \in 1..Len(out) :
                    <<out[i][1], out[i][2], out[i][3]>>
                        = <<out[j][1], out[j][2], out[j][3]>> => i = j
            /\ \A i \in 1..Len(out) :
                    LET key == <<out[i][1], out[i][2], out[i][3]>>
                        first == CHOOSE k \in LinesOf(diff_data, key) :
                                    \A l \in LinesOf(diff_data, key) : k <= l
                    IN  /\ LinesOf(diff_data, key) # {}
                        /\ out[i][4] =
                                IF ReAccessMatches(diff_data[first])
                                THEN AccessStatus(diff_data, diff_data[first])
                                ELSE NamesStatus(diff_data, diff_data[first])

\* C12 witness: a diff text with three lines for one access path returned
\* one tuple.
C12_Witness ==
    /\ diff_parts # None
    /\ Len(diff_data) = 3
    /\ \A i \in 1..3 : diff_data[i] = AccessLine("aws", "sudo", "h1")
    /\ Len(diff_parts[1]) = 1

\* C13: in what extract_diff_parts returns for a diff text, every tuple of
\* an access path is added if the text has the new-file marker, else deleted
\* if it has the deleted-file marker, else modified; every tuple of a names
\* path is deleteduser if the text has the deleted-file marker, else
\* modifieduser.
C13_DiffGlobalClassification ==
    diff_parts # None =>
        LET out == diff_parts[1]
            new == \E k \in 1..Len(diff_data) : diff_data[k] = NewFileMode
            deleted == \E k \in 1..Len(diff_data) : diff_data[k] = DeletedFileMode
        IN  \A i \in 1..Len(out) :
                IF out[i][1] = "" /\ out[i][2] = "names"
                THEN out[i][4] = (IF deleted THEN "deleteduser" ELSE "modifieduser")
                ELSE out[i][4] = (IF new THEN "added"
                                  ELSE IF deleted THEN "deleted" ELSE "modified")

\* C13 witness: a diff text with both markers, the deleted-file marker
\* first, returned an added access tuple.
C13_Witness ==
    /\ diff_parts # None
    /\ diff_data = <<DeletedFileMode, AccessLine("aws", "sudo", "h1"), NewFileMode>>
    /\ diff_parts[1] = << <<"aws", "sudo", "h1", "added">> >>

\* C14: every content request of a run for a deleted or deleteduser record
\* is made at the base commit the run was given, which is the content of
\* base_commit.txt the run read; every other content request is made at
\* build, which is not the base commit.
C14_RefSelection ==
    \A p \in Procs :
        \A r \in Sent(p, "names") :
            IF r.a[4] \in {"deleted", "deleteduser"}
            THEN /\ r.b = last_commit[p]
                 /\ file_at_start[p] = Some(r.b)
            ELSE /\ r.b = Build
                 /\ r.b # last_commit[p]

\* C14 witness: a run that read c1 requested the content of a deleted record
\* at c1 after the head of build had moved to c2.
C14_Witness ==
    \E p \in Procs :
        /\ merge_commit[p] = CommitId(2)
        /\ \E r \in Sent(p, "names") :
                r.a[4] = "deleted" /\ r.b = CommitId(1) /\ r.out = "ok"

\* The content request of the run of p for some record was answered with a
\* non-success status or without a content field.
SoftFailures(p) == {r \in Sent(p, "names") : r.out \in {"failure", "nocontent"}}

\* C15: in an incremental run where a content request was answered with a
\* non-success status or without a content field, that record has no
\* identity-management call; the run is aborted by nothing but a fetch or
\* write error; once the loop is over every parsed record has had its
\* content requested; and the finished run has written the head it resolved.
C15_SoftContentFailures ==
    \A p \in Procs :
        (IncrementalRun(p) /\ SoftFailures(p) # {}) =>
            /\ \A r \in SoftFailures(p) :
                    \A c \in BagToSet(calls[p]) : c.rec # r.a
            /\ pc[p] = "failed" => (FetchFault(p) \/ err[p] = Some("write"))
            /\ pc[p] \in {"write", "done"} =>
                    \A rec \in parsed[p] : \E r \in Sent(p, "names") : r.a = rec
            /\ pc[p] = "done" =>
                    /\ base_commit_txt = Some(merge_commit[p])
                    /\ \E r \in Sent(p, "commits") : r.out = "ok" /\ r.a = merge_commit[p]

\* C15 witness: a finished incremental run had the content request of one
\* record answered with a non-success status, made a call for another
\* record, and wrote c2.
C15_Witness ==
    \E p \in Procs :
        /\ IncrementalRun(p)
        /\ pc[p] = "done"
        /\ \E r \in Sent(p, "names") : r.out = "failure"
        /\ calls[p] # EmptyBag
        /\ base_commit_txt = Some(CommitId(2))

\* C16 (as specified): in a full-resync run every identity-management call
\* is made for a path access/<a>/<b>/<hash> one of whose segments <a>, <b>
\* is the host identity.
C16_HostFilterOnEveryPath ==
    \A p \in Procs :
        FullResyncRun(p) =>
            \A c \in BagToSet(calls[p]) :
                c.rec[1] = hostname \/ c.rec[2] = hostname

\* C17 (as specified): in an incremental run every content request for a
\* record of an access path is made for a path access/<a>/<b>/<hash> one of
\* whose segments <a>, <b> is the host identity.
C17_FilterBeforeFetch ==
    \A p \in Procs :
        IncrementalRun(p) =>
            \A r \in Sent(p, "names") :
                AccessRecord(r.a) => (r.a[1] = hostname \/ r.a[2] = hostname)

\* C18: whatever the other process is doing, a run that reads the
\* checkpoint takes what base_commit.txt holds at that moment as its base; a
\* run whose diff names the grant makes the call for it; and a run that
\* writes the checkpoint leaves in base_commit.txt the head it resolved
\* itself, whatever the file held.
C18_NoOverlapGuard ==
    [][\A p \in Procs :
            /\ (pc[p] = "load" /\ pc'[p] # "load") =>
                    /\ pc'[p] = "recent"
                    /\ Some(last_commit'[p]) = base_commit_txt
            /\ (pc[p] = "loop" /\ pc'[p] # "loop") =>
                    /\ pc'[p] = "write"
                    /\ BagCardinality(calls'[p]) = 1
            /\ (pc[p] = "write" /\ pc'[p] # "write") =>
                    /\ pc'[p] = "done"
                    /\ base_commit_txt' = Some(merge_commit[p])
      ]_vars

\* C18 witness: two runs that both read c1 have both made the call for the
\* same record; one resolved c3 and wrote it, the other resolved c2 and
\* wrote it afterwards: base_commit.txt holds c2.
C18_Witness ==
    \E p, q \in Procs :
        /\ pc[p] = "done" /\ pc[q] = "done"
        /\ file_at_start[p] = Some(CommitId(1))
        /\ file_at_start[q] = Some(CommitId(1))
        /\ merge_commit[p] = CommitId(2)
        /\ merge_commit[q] = CommitId(3)
        /\ \E c \in BagToSet(calls[p]), d \in BagToSet(calls[q]) : c.rec = d.rec
        /\ base_commit_txt = Some(CommitId(2))

\* C19 (as specified): the head a finished full-resync run has written,
\* after an enumeration that returned Ok, is the head of build that the
\* run's first listing was answered from: no commit lies between the state
\* enumerated and the checkpoint.
C19_ResyncHeadNotNewer ==
    \A p \in Procs :
        (FullResyncRun(p) /\ pc[p] = "done"
            /\ update_all_result[p] = Some("Ok")
            /\ base_commit_txt = Some(latest_commit[p])) =>
            latest_commit[p] = CommitId(enumerated_at[p])

\* C20: once a call of process_update_request has ended in a process, by
\* returning or by a panic, the only steps of that process are calls that
\* panic, until the process is restarted; and a call that panics has read no
\* checkpoint, sent no request, made no identity-management call and left
\* base_commit.txt as it was.
C20_SecondCallPanics ==
    [][\A p \in Procs :
            pc[p] \in {"done", "failed", "panicked"} =>
                /\ pc'[p] \in {pc[p], "panicked", "idle"}
                /\ pc'[p] = "panicked" =>
                        /\ LOGGER[p] # None
                        /\ base_commit_txt' = base_commit_txt
                        /\ file_at_start'[p] = None
                        /\ requests'[p] = {}
                        /\ calls'[p] = EmptyBag
      ]_vars

\* C20 witness: the second call in a process whose first call wrote c2 has
\* panicked, and base_commit.txt holds c2.
C20_Witness ==
    \E p \in Procs :
        /\ pc[p] = "panicked"
        /\ LOGGER[p] # None
        /\ persisted = Some(CommitId(2))
        /\ base_commit_txt = Some(CommitId(2))

====
